---- MODULE Spec2Model ----
(***************************************************************************)
(* Model of the cw20-bid-more contract: a store of auction records keyed   *)
(* by identifier, the Create and Bid handlers reached through              *)
(* handle/try_receive, and the List and Details queries.                   *)
(*                                                                         *)
(* Identifiers and storage keys are sequences of bytes (0..255); human     *)
(* addresses are strings; canonical addresses are records [canon |-> h].   *)
(***************************************************************************)
EXTENDS Integers, Sequences, FiniteSets, TLC

VARIABLES storage, block, res

vars == <<storage, block, res>>

---------------------------------------------------------------------------
(* Bounds of the model *)

\* largest token amount a Create or Bid carries
MaxAmount == 2
\* largest block height the chain reaches
MaxHeight == 2
\* largest block time the chain reaches
MaxTime == 3
\* largest height / time an Expiration names
MaxExpiry == 1
\* largest number of records in the stores the listing is checked on
MaxStored == 32
\* largest explicit limit passed to the List query
MaxLimit == 32
\* largest number of records in the stores that are listed page after page
MaxPaged == 12

---------------------------------------------------------------------------
(* Program constants *)

MAX_LIMIT == 30
DEFAULT_LIMIT == 10
\* bounds of is_valid_name
MIN_ID_LEN == 3
MAX_ID_LEN == 20

\* b"auction"
PREFIX_AUCTION == <<97, 117, 99, 116, 105, 111, 110>>

\* Option::None, and Option::Some
None == [none |-> TRUE]

Some(x) == [some |-> x]

---------------------------------------------------------------------------
(* Byte strings *)

Min(a, b) == IF a <= b THEN a ELSE b

\* lexicographic order on byte sequences (the order of the storage keys)
BytesLess(a, b) ==
    \E i \in 1..(Min(Len(a), Len(b)) + 1) :
        /\ \A j \in 1..(i - 1) : a[j] = b[j]
        /\ \/ i > Len(a) /\ i <= Len(b)
           \/ i <= Len(a) /\ i <= Len(b) /\ a[i] < b[i]

BytesLE(a, b) == a = b \/ BytesLess(a, b)

IsPrefixOf(p, k) == Len(p) <= Len(k) /\ SubSeq(k, 1, Len(p)) = p

\* the keys of S in ascending byte order
RECURSIVE Ascending(_)
Ascending(S) ==
    IF S = {} THEN <<>>
    ELSE LET m == CHOOSE x \in S : \A y \in S : BytesLE(x, y)
         IN <<m>> \o Ascending(S \ {m})

\* Iterator::take
Take(s, n) == SubSeq(s, 1, Min(n, Len(s)))

\* namespace of a bucket: the prefix with its two-byte big-endian length
to_length_prefixed(ns) == <<Len(ns) \div 256, Len(ns) % 256>> \o ns

---------------------------------------------------------------------------
(* Addresses, coins, expirations *)

\* accounts that send tokens; the last one has no canonical form
ValidAddrs == {"creator", "bidder"}
InvalidAddrs == {""}
Senders == ValidAddrs \cup InvalidAddrs

\* cw20 token contracts calling Receive (env.message.sender, set by the chain)
Tokens == {"tokenA", "tokenB"}

Amounts == 0..MaxAmount

\* the StdError of a failed canonicalisation
AddrErr == [addr_err |-> TRUE]

\* Api::canonical_address: fails on a string that is not an address
canonical_address(human) ==
    IF human \in InvalidAddrs THEN AddrErr ELSE [canon |-> human]

\* Api::human_address
human_address(canonical) == canonical.canon

AtHeight(h) == [kind |-> "AtHeight", at |-> h]
AtTime(t) == [kind |-> "AtTime", at |-> t]
Never == [kind |-> "Never", at |-> 0]

Expirations ==
    {AtHeight(h) : h \in 1..MaxExpiry} \cup {AtTime(t) : t \in 1..MaxExpiry}
        \cup {Never}

\* Expiration::is_expired
Expiration_is_expired(expires, blk) ==
    CASE expires.kind = "AtHeight" -> blk.height >= expires.at
      [] expires.kind = "AtTime" -> blk.time >= expires.at
      [] OTHER -> FALSE

\* an is_expired that holds only in the very block / second of the expiration
is_expired_only_at(auction, blk) ==
    CASE auction.expires.kind = "AtHeight" -> blk.height = auction.expires.at
      [] auction.expires.kind = "AtTime" -> blk.time = auction.expires.at
      [] OTHER -> FALSE

\* Auction::is_expired
is_expired(auction, blk) == Expiration_is_expired(auction.expires, blk)

\* Cw20Coin::is_empty
is_empty(coin) == coin.amount = 0

Cw20Coin(address, amount) == [address |-> address, amount |-> amount]

---------------------------------------------------------------------------
(* Storage: raw key -> Auction.  bucket / bucket_read / prefixed_read all   *)
(* address the namespace PREFIX_AUCTION.                                   *)

EmptyStorage == [k \in {} |-> None]

bucket_key(id) == to_length_prefixed(PREFIX_AUCTION) \o id

\* ReadonlyBucket::may_load
may_load(st, id) ==
    IF bucket_key(id) \in DOMAIN st THEN st[bucket_key(id)] ELSE None

\* a save that leaves only the record it writes
save_drops_others(st, id, auction) ==
    [k \in {bucket_key(id)} |-> auction]

\* Bucket::save
save(st, id, auction) ==
    [k \in DOMAIN st \cup {bucket_key(id)} |->
        IF k = bucket_key(id) THEN auction ELSE st[k]]

\* identifiers with a record
StoredIds(st) ==
    {SubSeq(k, Len(to_length_prefixed(PREFIX_AUCTION)) + 1, Len(k)) :
        k \in {x \in DOMAIN st : IsPrefixOf(to_length_prefixed(PREFIX_AUCTION), x)}}

---------------------------------------------------------------------------
(* Identifiers *)

\* an is_valid_name that lets one more byte through
is_valid_name_one_longer(name) ==
    IF Len(name) < 3 \/ Len(name) > 21 THEN FALSE ELSE TRUE

is_valid_name(name) ==
    IF Len(name) < 3 \/ Len(name) > 20 THEN FALSE ELSE TRUE

IdOfLen(n) == [i \in 1..n |-> 97]

\* "zen", "lazy", "assign"
Zen == <<122, 101, 110>>
Lazy == <<108, 97, 122, 121>>
Assign == <<97, 115, 115, 105, 103, 110>>

\* identifiers of the single-auction runs: one byte short of the minimum,
\* a valid one, one byte past the maximum
Ids == {IdOfLen(MIN_ID_LEN - 1), Zen, IdOfLen(MAX_ID_LEN + 1)}

\* identifiers of the many-auction runs: the lengths around both limits
ManyIds ==
    {IdOfLen(MIN_ID_LEN - 1), Zen, Lazy, Assign, IdOfLen(MAX_ID_LEN),
     IdOfLen(MAX_ID_LEN + 1)}

---------------------------------------------------------------------------
(* Responses *)

Ok(op, id, messages) ==
    [op |-> op, id |-> id, err |-> "ok", messages |-> messages]

Err(op, id, msg) ==
    [op |-> op, id |-> id, err |-> msg, messages |-> <<>>]

---------------------------------------------------------------------------
(* Handlers.  Each returns the storage it leaves and the response.         *)

Response(st, r) == [storage |-> st, res |-> r]

\* a send_tokens that names the token contract as the recipient
send_tokens_wrong_recipient(to, coin) ==
    IF is_empty(coin) THEN <<>>
    ELSE <<[contract_addr |-> human_address(coin.address),
            recipient |-> human_address(coin.address),
            amount |-> coin.amount]>>

\* a send_tokens that emits a transfer for an empty coin as well
send_tokens_always_sends(to, coin) ==
    <<[contract_addr |-> human_address(coin.address),
       recipient |-> to,
       amount |-> coin.amount]>>

\* Cw20HandleMsg::Transfer wrapped in WasmMsg::Execute
send_tokens(to, coin) ==
    IF is_empty(coin) THEN <<>>
    ELSE <<[contract_addr |-> human_address(coin.address),
            recipient |-> to,
            amount |-> coin.amount]>>

\* the record try_create stores
new_auction(msg, balance, sender) ==
    [winner |-> canonical_address(sender),
     source |-> canonical_address(sender),
     expires |-> msg.expires,
     balance |-> balance]

\* a store-if-absent that overwrites an existing record
store_new_overwrites(st, id, my_auction) ==
    Response(save(st, id, my_auction), Ok("create", id, <<>>))

\* Bucket::update in try_create: store it, fail if the id already exists
store_new(st, id, my_auction) ==
    IF may_load(st, id) = None
    THEN Response(save(st, id, my_auction), Ok("create", id, <<>>))
    ELSE Response(st, Err("create", id, "Auction already exists"))

\* a try_create that stores the record before it looks at the expiration
try_create_stores_first(st, blk, msg, balance, sender) ==
    IF ~is_valid_name(msg.id)
    THEN Response(st, Err("create", msg.id, "Invalid auction id"))
    ELSE IF canonical_address(sender) = AddrErr
    THEN Response(st, Err("create", msg.id, "Invalid address"))
    ELSE LET stored == store_new(st, msg.id, new_auction(msg, balance, sender))
         IN IF Expiration_is_expired(msg.expires, blk)
            THEN Response(stored.storage, Err("create", msg.id, "Expired auction"))
            ELSE stored

\* a try_create with the zero-balance check of contract.rs:70-76 enabled
try_create_zero_only(st, blk, msg, balance, sender) ==
    IF ~is_valid_name(msg.id)
    THEN Response(st, Err("create", msg.id, "Invalid auction id"))
    ELSE IF ~is_empty(balance)
    THEN Response(st, Err("create", msg.id, "Create auction with zero token only"))
    ELSE IF Expiration_is_expired(msg.expires, blk)
    THEN Response(st, Err("create", msg.id, "Expired auction"))
    ELSE IF canonical_address(sender) = AddrErr
    THEN Response(st, Err("create", msg.id, "Invalid address"))
    ELSE store_new(st, msg.id, new_auction(msg, balance, sender))

\* a try_create that does not look at the expiration
try_create_no_expiry_check(st, blk, msg, balance, sender) ==
    IF ~is_valid_name(msg.id)
    THEN Response(st, Err("create", msg.id, "Invalid auction id"))
    ELSE IF canonical_address(sender) = AddrErr
    THEN Response(st, Err("create", msg.id, "Invalid address"))
    ELSE store_new(st, msg.id, new_auction(msg, balance, sender))

try_create(st, blk, msg, balance, sender) ==
    IF ~is_valid_name(msg.id)
    THEN Response(st, Err("create", msg.id, "Invalid auction id"))
    ELSE IF Expiration_is_expired(msg.expires, blk)
    THEN Response(st, Err("create", msg.id, "Expired auction"))
    ELSE IF canonical_address(sender) = AddrErr
    THEN Response(st, Err("create", msg.id, "Invalid address"))
    ELSE store_new(st, msg.id, new_auction(msg, balance, sender))

\* a token check that lets every token through
token_mismatch_off(my_auction, token) == FALSE

\* the bidder must use the same cw20 token as the current balance
token_mismatch(my_auction, token) ==
    my_auction.balance.address # token.address

\* a price check that lets an equal bid through
bid_too_low_equal_passes(my_auction, token) ==
    my_auction.balance.amount > token.amount

\* new bid price must be higher than current bid price
bid_too_low(my_auction, token) ==
    my_auction.balance.amount >= token.amount

\* a record to store that names the bidder as the source too
auction_to_save_new_source(my_auction, token, sender) ==
    [my_auction EXCEPT !.winner = canonical_address(sender),
                       !.source = canonical_address(sender),
                       !.balance = token]

\* the record try_bid stores: winner and balance replaced, ..my_auction
auction_to_save(my_auction, token, sender) ==
    [my_auction EXCEPT !.winner = canonical_address(sender),
                       !.balance = token]

\* a store step with the removal of the record (contract.rs:139-140) enabled
store_bid_removes(st, id, auction, messages) ==
    IF may_load(st, id) = None
    THEN Response(st, Err("bid", id, "Auction does not exist"))
    ELSE Response([k \in DOMAIN st \ {bucket_key(id)} |-> st[k]],
                  Ok("bid", id, messages))

\* a store step whose write is lost
store_bid_no_write(st, id, auction, messages) ==
    IF may_load(st, id) = None
    THEN Response(st, Err("bid", id, "Auction does not exist"))
    ELSE Response(st, Ok("bid", id, messages))

\* Bucket::update in try_bid: store it, fail if the id does not exist
store_bid(st, id, auction, messages) ==
    IF may_load(st, id) = None
    THEN Response(st, Err("bid", id, "Auction does not exist"))
    ELSE Response(save(st, id, auction), Ok("bid", id, messages))

\* an accept_bid that refunds the coin of the new bid
accept_bid_refunds_new_bid(st, my_auction, token, id, sender) ==
    LET current_winner == human_address(my_auction.winner)
        messages == send_tokens(current_winner, token)
    IN IF canonical_address(sender) = AddrErr
       THEN Response(st, Err("bid", id, "Invalid address"))
       ELSE store_bid(st, id, auction_to_save(my_auction, token, sender), messages)

\* what try_bid does once the bid has passed the checks
accept_bid(st, my_auction, token, id, sender) ==
    LET current_winner == human_address(my_auction.winner)
        messages == send_tokens(current_winner, my_auction.balance)
    IN IF canonical_address(sender) = AddrErr
       THEN Response(st, Err("bid", id, "Invalid address"))
       ELSE store_bid(st, id, auction_to_save(my_auction, token, sender), messages)

\* a try_bid that looks at the token and the price before the expiration
try_bid_price_first(st, blk, token, id, sender) ==
    LET my_auction == may_load(st, id) IN
    IF my_auction = None
    THEN Response(st, Err("bid", id, "NotFound"))
    ELSE IF token_mismatch(my_auction, token)
    THEN Response(st, Err("bid", id, "Must use the same token address"))
    ELSE IF bid_too_low(my_auction, token)
    THEN Response(st, Err("bid", id, "Bid price not high enough"))
    ELSE IF is_expired(my_auction, blk)
    THEN Response(st, Err("bid", id, "Auction has already expired"))
    ELSE accept_bid(st, my_auction, token, id, sender)

try_bid(st, blk, token, id, sender) ==
    LET my_auction == may_load(st, id) IN
    IF my_auction = None
    THEN Response(st, Err("bid", id, "NotFound"))
    ELSE IF is_expired(my_auction, blk)
    THEN Response(st, Err("bid", id, "Auction has already expired"))
    ELSE IF token_mismatch(my_auction, token)
    THEN Response(st, Err("bid", id, "Must use the same token address"))
    ELSE IF bid_too_low(my_auction, token)
    THEN Response(st, Err("bid", id, "Bid price not high enough"))
    ELSE accept_bid(st, my_auction, token, id, sender)

CreateMsg(id, expires) == [type |-> "create", id |-> id, expires |-> expires]
BidMsg(id) == [type |-> "bid", id |-> id]

\* handle(HandleMsg::Receive(wrapper)) with env.message.sender = contract
try_receive(st, blk, contract, wrapper) ==
    IF wrapper.msg = None
    THEN Response(st, Err("receive", <<>>, "ParseErr"))
    ELSE LET token == Cw20Coin(canonical_address(contract), wrapper.amount) IN
         IF wrapper.msg.type = "create"
         THEN try_create(st, blk, wrapper.msg, token, wrapper.sender)
         ELSE try_bid(st, blk, token, wrapper.msg.id, wrapper.sender)

Cw20ReceiveMsg(sender, amount, msg) ==
    [sender |-> sender, amount |-> amount, msg |-> msg]

handle(st, blk, contract, wrapper) == try_receive(st, blk, contract, wrapper)

\* a query_details that reports winner and source in each other's place
query_details_swapped(st, id) ==
    LET my_auction == may_load(st, id) IN
    IF my_auction = None
    THEN [op |-> "details", id |-> id, err |-> "NotFound", messages |-> <<>>]
    ELSE [op |-> "details", id |-> id, err |-> "ok", messages |-> <<>>,
          winner |-> human_address(my_auction.source),
          source |-> human_address(my_auction.winner),
          expires |-> my_auction.expires,
          balance |-> [address |-> human_address(my_auction.balance.address),
                       amount |-> my_auction.balance.amount]]

\* query(QueryMsg::Details {id})
query_details(st, id) ==
    LET my_auction == may_load(st, id) IN
    IF my_auction = None
    THEN [op |-> "details", id |-> id, err |-> "NotFound", messages |-> <<>>]
    ELSE [op |-> "details", id |-> id, err |-> "ok", messages |-> <<>>,
          winner |-> human_address(my_auction.winner),
          source |-> human_address(my_auction.source),
          expires |-> my_auction.expires,
          balance |-> [address |-> human_address(my_auction.balance.address),
                       amount |-> my_auction.balance.amount]]

\* cw0::calc_range_start_string: the first key after start_after
calc_range_start_string(start_after) ==
    IF start_after = None THEN None ELSE Some(start_after.some \o <<0>>)

\* prefixed_read(PREFIX_AUCTION).range(start, None, Ascending).take(limit),
\* the keys given back without the namespace
all_auction_ids(st, start, limit) ==
    LET ns == to_length_prefixed(PREFIX_AUCTION)
        keys == {SubSeq(k, Len(ns) + 1, Len(k)) :
                    k \in {x \in DOMAIN st : IsPrefixOf(ns, x)}}
        range == IF start = None THEN keys
                 ELSE {k \in keys : BytesLE(start.some, k)}
    IN Take(Ascending(range), limit)

\* a query_list that starts the range at start_after itself
query_list_inclusive_start(st, start_after, limit) ==
    LET lim == Min(IF limit = None THEN DEFAULT_LIMIT ELSE limit.some, MAX_LIMIT)
    IN [op |-> "list", id |-> <<>>, err |-> "ok", messages |-> <<>>,
        start_after |-> start_after, limit |-> limit,
        auctions |-> all_auction_ids(st, start_after, lim)]

\* a query_list that does not cap the limit
query_list_uncapped(st, start_after, limit) ==
    LET start == calc_range_start_string(start_after)
        lim == IF limit = None THEN DEFAULT_LIMIT ELSE limit.some
    IN [op |-> "list", id |-> <<>>, err |-> "ok", messages |-> <<>>,
        start_after |-> start_after, limit |-> limit,
        auctions |-> all_auction_ids(st, start, lim)]

\* query(QueryMsg::List {start_after, limit})
query_list(st, start_after, limit) ==
    LET start == calc_range_start_string(start_after)
        lim == Min(IF limit = None THEN DEFAULT_LIMIT ELSE limit.some, MAX_LIMIT)
    IN [op |-> "list", id |-> <<>>, err |-> "ok", messages |-> <<>>,
        start_after |-> start_after, limit |-> limit,
        auctions |-> all_auction_ids(st, start, lim)]

---------------------------------------------------------------------------
(* The state machine *)

Init ==
    /\ storage = EmptyStorage
    /\ block = [height |-> 0, time |-> 0]
    /\ res = [op |-> "init", id |-> <<>>, err |-> "ok", messages |-> <<>>]

\* what handle returns, in the current state, for a Create / a Bid forwarded
\* by the cw20 contract
HandleCreate(id, expires, contract, amount, sender) ==
    handle(storage, block, contract,
           Cw20ReceiveMsg(sender, amount, CreateMsg(id, expires)))

HandleBid(id, contract, amount, sender) ==
    handle(storage, block, contract, Cw20ReceiveMsg(sender, amount, BidMsg(id)))

\* a cw20 contract forwards a Create
Create(id, expires, contract, amount, sender) ==
    LET r == HandleCreate(id, expires, contract, amount, sender)
    IN /\ storage' = r.storage
       /\ res' = r.res
       /\ UNCHANGED block

\* a cw20 contract forwards a Bid
Bid(id, contract, amount, sender) ==
    LET r == HandleBid(id, contract, amount, sender)
    IN /\ storage' = r.storage
       /\ res' = r.res
       /\ UNCHANGED block

\* a Receive without a payload
ReceiveNoData(contract, amount, sender) ==
    LET r == handle(storage, block, contract,
                    Cw20ReceiveMsg(sender, amount, None))
    IN /\ storage' = r.storage
       /\ res' = r.res
       /\ UNCHANGED block

Details(id) ==
    /\ res' = query_details(storage, id)
    /\ UNCHANGED <<storage, block>>

\* the chain produces the next block: height and time only grow
AdvanceBlock ==
    /\ block.height < MaxHeight
    /\ \E t \in (block.time + 1)..MaxTime :
           block' = [height |-> block.height + 1, time |-> t]
    /\ UNCHANGED <<storage, res>>

DoCreate ==
    \E id \in Ids, expires \in Expirations, contract \in Tokens,
       amount \in Amounts, sender \in Senders :
        Create(id, expires, contract, amount, sender)

DoBid ==
    \E id \in Ids, contract \in Tokens, amount \in Amounts, sender \in Senders :
        Bid(id, contract, amount, sender)

DoReceiveNoData ==
    \E contract \in Tokens, amount \in Amounts, sender \in Senders :
        ReceiveNoData(contract, amount, sender)

DoDetails == \E id \in Ids : Details(id)

Next ==
    \/ DoCreate
    \/ DoBid
    \/ DoReceiveNoData
    \/ DoDetails
    \/ AdvanceBlock

Spec == Init /\ [][Next]_vars

---------------------------------------------------------------------------
(* Many auctions side by side, each with a small payload *)

DoCreateMany ==
    \E id \in ManyIds, amount \in 0..Min(1, MaxAmount), sender \in ValidAddrs :
        Create(id, Never, "tokenA", amount, sender)

DoBidMany ==
    \E id \in ManyIds, amount \in 0..Min(1, MaxAmount), sender \in ValidAddrs :
        Bid(id, "tokenA", amount, sender)

NextMany ==
    \/ DoCreateMany
    \/ DoBidMany

SpecMany == Init /\ [][NextMany]_vars

---------------------------------------------------------------------------
(* The List query over stores of up to MaxStored auctions *)

\* the i-th identifier of the pool; the pool's order is not the byte order
NthId(i) == <<97 + (i % 5), 97 + (i \div 5), 110>>

\* the record test_all_swap_ids stores, as a Create with no tokens leaves it
dummy_swap ==
    [winner |-> canonical_address("creator"),
     source |-> canonical_address("creator"),
     expires |-> Never,
     balance |-> Cw20Coin(canonical_address("tokenA"), 0)]

StorageOf(ids) == [k \in {bucket_key(id) : id \in ids} |-> dummy_swap]

\* numbers of stored auctions: few, around the default limit, around the cap
StoreSizes ==
    (0..3) \cup ((DEFAULT_LIMIT - 1)..(DEFAULT_LIMIT + 1))
        \cup ((MAX_LIMIT - 1)..MaxStored)

ListStores ==
    {StorageOf({NthId(i) : i \in 0..(n - 1)}) : n \in StoreSizes}
        \cup {StorageOf({Zen, Lazy, Assign}),
              StorageOf({Zen, Zen \o <<0>>, Zen \o <<0, 0>>, Lazy})}

StartAfters ==
    {None, Some(NthId(0)), Some(NthId(2)), Some(Lazy), Some(Zen),
     Some(Zen \o <<0>>), Some(<<98>>)}

\* limits: absent, small, around the cap
Limits ==
    {None} \cup {Some(n) : n \in (0..2) \cup ((MAX_LIMIT - 1)..MaxLimit)}

List(start_after, limit) ==
    /\ res' = query_list(storage, start_after, limit)
    /\ UNCHANGED <<storage, block>>

DoList == \E start_after \in StartAfters, limit \in Limits : List(start_after, limit)

InitList ==
    /\ storage \in ListStores
    /\ block = [height |-> 0, time |-> 0]
    /\ res = [op |-> "init", id |-> <<>>, err |-> "ok", messages |-> <<>>]

NextList == DoList

SpecList == InitList /\ [][NextList]_vars

---------------------------------------------------------------------------
(* A client that lists page after page, the storage unchanged in between *)

\* the pages from start_after on, one after the other: each call starts
\* after the last identifier of the page before, until a page is empty;
\* calls bounds the number of List queries
RECURSIVE PagesFrom(_, _, _, _)
PagesFrom(st, start_after, limit, calls) ==
    LET page == query_list(st, start_after, limit).auctions IN
    IF page = <<>> \/ calls = 0 THEN <<>>
    ELSE page \o PagesFrom(st, Some(page[Len(page)]), limit, calls - 1)

\* all pages, the first call with no start_after
AllPages(st, limit) ==
    [op |-> "pages", id |-> <<>>, err |-> "ok", messages |-> <<>>,
     limit |-> limit,
     auctions |-> PagesFrom(st, None, limit, Cardinality(DOMAIN st) + 1)]

PageStores ==
    {StorageOf({NthId(i) : i \in 0..(n - 1)}) : n \in 0..MaxPaged}
        \cup {StorageOf({Zen, Lazy, Assign}),
              StorageOf({Zen, Zen \o <<0>>, Zen \o <<0, 0>>, Lazy})}

\* page sizes: the default, none at all, small ones, one past the cap
PageLimits ==
    {None} \cup {Some(n) : n \in (0..5) \cup {DEFAULT_LIMIT, MAX_LIMIT + 1}}

Paginate(limit) ==
    /\ res' = AllPages(storage, limit)
    /\ UNCHANGED <<storage, block>>

DoPaginate == \E limit \in PageLimits : Paginate(limit)

InitPages ==
    /\ storage \in PageStores
    /\ block = [height |-> 0, time |-> 0]
    /\ res = [op |-> "init", id |-> <<>>, err |-> "ok", messages |-> <<>>]

NextPages == DoPaginate

SpecPages == InitPages /\ [][NextPages]_vars

---------------------------------------------------------------------------
(* Properties *)

Auction(st, id) == may_load(st, id)

Exists(st, id) == may_load(st, id) # None

TypeOK ==
    /\ block.height \in 0..MaxHeight
    /\ block.time \in 0..MaxTime
    /\ \A id \in StoredIds(storage) : Exists(storage, id)

\* the coin a Receive from the token contract carries
Coin(contract, amount) == Cw20Coin(canonical_address(contract), amount)

\* the last handled message was a Bid / a Create with this outcome
BidResult(err) == res.op = "bid" /\ res.err = err
CreateResult(err) == res.op = "create" /\ res.err = err

\* C1 -- Monotonic balance: in every reachable state, whatever Bid arrives,
\* an accepted Bid leaves a stored balance.amount strictly above the one
\* before it, and a Bid on an unexpired auction in the auction's token whose
\* amount is at most the stored amount fails with "Bid price not high enough"
\* and leaves the storage unchanged.
C1_MonotonicBalance ==
    \A id \in Ids, contract \in Tokens, amount \in Amounts, sender \in Senders :
        LET r == HandleBid(id, contract, amount, sender) IN
        /\ r.res.err = "ok" =>
              Auction(r.storage, id).balance.amount
                  > Auction(storage, id).balance.amount
        /\ ( /\ Exists(storage, id)
             /\ ~is_expired(Auction(storage, id), block)
             /\ Auction(storage, id).balance.address = canonical_address(contract)
             /\ amount <= Auction(storage, id).balance.amount )
           => r.res.err = "Bid price not high enough" /\ r.storage = storage

\* a low bid was rejected on an auction that an earlier bid had been accepted on
C1_Witness ==
    /\ BidResult("Bid price not high enough")
    /\ Exists(storage, res.id)
    /\ Auction(storage, res.id).winner # Auction(storage, res.id).source
    /\ Auction(storage, res.id).balance.amount = MaxAmount

\* C2 -- Exchange correctness: an accepted Bid emits at most one transfer,
\* which pays the balance stored before the bid (its token and amount) to the
\* winner stored before the bid; afterwards the stored winner is the bidder,
\* the stored balance is the bid's token and amount, and source and expires
\* are as before.
C2_ExchangeCorrectness ==
    \A id \in Ids, contract \in Tokens, amount \in Amounts, sender \in Senders :
        LET r == HandleBid(id, contract, amount, sender)
            old == Auction(storage, id)
            new == Auction(r.storage, id)
        IN r.res.err = "ok" =>
            /\ Len(r.res.messages) <= 1
            /\ \A i \in 1..Len(r.res.messages) :
                  /\ r.res.messages[i].recipient = human_address(old.winner)
                  /\ r.res.messages[i].contract_addr = human_address(old.balance.address)
                  /\ r.res.messages[i].amount = old.balance.amount
            /\ new.winner = canonical_address(sender)
            /\ new.balance = Coin(contract, amount)
            /\ new.source = old.source
            /\ new.expires = old.expires

\* a bid was accepted and refunded somebody other than the new winner
C2_Witness ==
    /\ BidResult("ok")
    /\ Len(res.messages) = 1
    /\ res.messages[1].recipient # human_address(Auction(storage, res.id).winner)
    /\ res.messages[1].amount < Auction(storage, res.id).balance.amount

\* what handle returns, in the current state, for a Receive without a payload
HandleNoData(contract, amount, sender) ==
    handle(storage, block, contract, Cw20ReceiveMsg(sender, amount, None))

\* C3 (as claimed) -- a Create on an identifier that has a record fails with
\* "Auction already exists" whatever its payload, and leaves the storage as
\* it was.
C3_AlwaysAlreadyExists ==
    \A id \in Ids, expires \in Expirations, contract \in Tokens,
       amount \in Amounts, sender \in Senders :
        Exists(storage, id) =>
            LET r == HandleCreate(id, expires, contract, amount, sender)
            IN r.res.err = "Auction already exists" /\ r.storage = storage

\* C3 (amended) -- a Create on an identifier that has a record always fails,
\* emits nothing and leaves the storage as it was; it fails with "Expired
\* auction" when its expiration has elapsed at the current block, and with
\* "Auction already exists" when the expiration has not elapsed and the
\* sender is an address.
C3_CreateOnExistingFails ==
    \A id \in Ids, expires \in Expirations, contract \in Tokens,
       amount \in Amounts, sender \in Senders :
        Exists(storage, id) =>
            LET r == HandleCreate(id, expires, contract, amount, sender)
            IN /\ r.res.err # "ok"
               /\ r.res.messages = <<>>
               /\ r.storage = storage
               /\ Expiration_is_expired(expires, block)
                     => r.res.err = "Expired auction"
               /\ (~Expiration_is_expired(expires, block) /\ sender \in ValidAddrs)
                     => r.res.err = "Auction already exists"

\* a second Create on a stored identifier was turned down as existing
C3_Witness ==
    /\ CreateResult("Auction already exists")
    /\ Exists(storage, res.id)

\* C4 -- Token-identity enforcement: a Bid on an existing, unexpired auction
\* in another token than the stored balance's fails with "Must use the same
\* token address", whatever its amount, and leaves the storage as it was; and
\* no step changes the token of a stored balance.
C4_MismatchRejected ==
    \A id \in Ids, contract \in Tokens, amount \in Amounts, sender \in Senders :
        ( /\ Exists(storage, id)
          /\ ~is_expired(Auction(storage, id), block)
          /\ Auction(storage, id).balance.address # canonical_address(contract) )
        => LET r == HandleBid(id, contract, amount, sender)
           IN r.res.err = "Must use the same token address" /\ r.storage = storage

C4_TokenKept ==
    \A id \in StoredIds(storage) :
        /\ Exists(storage', id)
        /\ Auction(storage', id).balance.address = Auction(storage, id).balance.address

C4_TokenIdentity == []C4_MismatchRejected /\ [][C4_TokenKept]_vars

\* a bid in the wrong token was rejected while higher amounts were possible
C4_Witness ==
    /\ BidResult("Must use the same token address")
    /\ Exists(storage, res.id)
    /\ Auction(storage, res.id).balance.amount < MaxAmount

\* C5 -- Bid precondition order: a Bid fails with the first violated
\* precondition in the order NotFound, "Auction has already expired", "Must
\* use the same token address", "Bid price not high enough", whichever later
\* ones it violates as well.
C5_BidPreconditionOrder ==
    \A id \in Ids, contract \in Tokens, amount \in Amounts, sender \in Senders :
        LET r == HandleBid(id, contract, amount, sender)
            a == Auction(storage, id)
        IN /\ ~Exists(storage, id) => r.res.err = "NotFound"
           /\ (Exists(storage, id) /\ is_expired(a, block))
                 => r.res.err = "Auction has already expired"
           /\ ( /\ Exists(storage, id)
                /\ ~is_expired(a, block)
                /\ a.balance.address # canonical_address(contract) )
              => r.res.err = "Must use the same token address"
           /\ ( /\ Exists(storage, id)
                /\ ~is_expired(a, block)
                /\ a.balance.address = canonical_address(contract)
                /\ amount <= a.balance.amount )
              => r.res.err = "Bid price not high enough"

\* a bid failed as expired on an auction on which every amount is too low
C5_Witness ==
    /\ BidResult("Auction has already expired")
    /\ Exists(storage, res.id)
    /\ Auction(storage, res.id).balance.amount = MaxAmount
    /\ Auction(storage, res.id).expires.kind = "AtHeight"

\* C6 -- All-or-nothing: a Create, a Bid or a Receive without payload that
\* fails leaves the whole storage as it was and emits no transfer.
C6_AllOrNothing ==
    /\ \A id \in Ids, expires \in Expirations, contract \in Tokens,
          amount \in Amounts, sender \in Senders :
           LET r == HandleCreate(id, expires, contract, amount, sender)
           IN r.res.err # "ok" => r.storage = storage /\ r.res.messages = <<>>
    /\ \A id \in Ids, contract \in Tokens, amount \in Amounts, sender \in Senders :
           LET r == HandleBid(id, contract, amount, sender)
           IN r.res.err # "ok" => r.storage = storage /\ r.res.messages = <<>>
    /\ \A contract \in Tokens, amount \in Amounts, sender \in Senders :
           LET r == HandleNoData(contract, amount, sender)
           IN r.res.err # "ok" /\ r.storage = storage /\ r.res.messages = <<>>

\* a Create with an elapsed expiration failed while the identifier was free
C6_Witness ==
    /\ CreateResult("Expired auction")
    /\ is_valid_name(res.id)
    /\ ~Exists(storage, res.id)

\* C7 -- Expired auctions are frozen: once an auction's expiration has
\* elapsed, every Bid on it fails with "Auction has already expired" without
\* a transfer, and every step leaves its record as it is and the auction
\* expired.
\* the auction's expiration has elapsed at the block
Elapsed(a, blk) == Expiration_is_expired(a.expires, blk)

C7_ExpiredUnbiddable ==
    \A id \in Ids, contract \in Tokens, amount \in Amounts, sender \in Senders :
        (Exists(storage, id) /\ Elapsed(Auction(storage, id), block))
        => LET r == HandleBid(id, contract, amount, sender)
           IN /\ r.res.err = "Auction has already expired"
              /\ r.res.messages = <<>>
              /\ r.storage = storage

C7_ExpiredStep ==
    \A id \in StoredIds(storage) :
        Elapsed(Auction(storage, id), block)
        => /\ Exists(storage', id)
           /\ Auction(storage', id) = Auction(storage, id)
           /\ Elapsed(Auction(storage', id), block')

Range(seq) == {seq[i] : i \in 1..Len(seq)}

\* the List query's answer r is the one listing owes for this storage
ListedRight(st, start_after, limit, r) ==
    LET n == Min(IF limit = None THEN 10 ELSE limit.some, 30)
        after == {id \in StoredIds(st) :
                     start_after = None \/ BytesLess(start_after.some, id)}
    IN /\ Len(r) = Min(n, Cardinality(after))
       /\ Len(r) <= 30
       /\ Range(r) \subseteq after
       /\ \A i \in 1..Len(r) : \A j \in (i + 1)..Len(r) : BytesLess(r[i], r[j])
       /\ \A id \in after \ Range(r) : \A i \in 1..Len(r) : BytesLess(r[i], id)
       /\ start_after # None => start_after.some \notin Range(r)

\* C8 -- Listing is ordered, bounded and strictly-after: List answers with
\* the first min(limit or 10, 30) stored identifiers that are strictly
\* greater than start_after (all of them when it is absent), ascending in
\* byte order and without duplicates, never start_after itself, never more
\* than 30; with "zen", "lazy", "assign" stored and no arguments it answers
\* ["assign", "lazy", "zen"].
C8_Listing ==
    res.op = "list" =>
        /\ ListedRight(storage, res.start_after, res.limit, res.auctions)
        /\ ( /\ StoredIds(storage) = {Zen, Lazy, Assign}
             /\ res.start_after = None
             /\ res.limit = None )
           => res.auctions = <<Assign, Lazy, Zen>>

\* more than 30 identifiers follow start_after, more than 30 were asked for,
\* and 30 came back
C8_Witness ==
    /\ res.op = "list"
    /\ res.start_after # None
    /\ res.limit # None
    /\ res.limit.some > MAX_LIMIT
    /\ Cardinality({id \in StoredIds(storage) :
                       BytesLess(res.start_after.some, id)}) > MAX_LIMIT
    /\ Len(res.auctions) = MAX_LIMIT

\* C9 -- Records are never deleted and only Create adds them: a Bid on an
\* identifier without a record fails with NotFound and stores nothing; every
\* stored identifier answers to Details and is in the listing, expired or
\* not; no step removes an identifier, and a step that adds one is a
\* successful Create of that identifier.
C9_StoredStaysVisible ==
    /\ \A id \in Ids, contract \in Tokens, amount \in Amounts, sender \in Senders :
          ~Exists(storage, id) =>
              LET r == HandleBid(id, contract, amount, sender)
              IN r.res.err = "NotFound" /\ r.storage = storage
    /\ \A id \in StoredIds(storage) :
          /\ query_details(storage, id).err = "ok"
          /\ id \in Range(query_list(storage, None, Some(MAX_LIMIT)).auctions)

C9_IdsStep ==
    /\ StoredIds(storage) \subseteq StoredIds(storage')
    /\ StoredIds(storage') # StoredIds(storage)
          => /\ res'.op = "create"
             /\ res'.err = "ok"
             /\ StoredIds(storage') = StoredIds(storage) \cup {res'.id}

C9_NeverDeleted == []C9_StoredStaysVisible /\ [][C9_IdsStep]_vars

\* Details answered for an auction that was bid on and has expired since
C9_Witness ==
    /\ res.op = "details"
    /\ res.err = "ok"
    /\ Exists(storage, res.id)
    /\ Elapsed(Auction(storage, res.id), block)
    /\ Auction(storage, res.id).winner # Auction(storage, res.id).source

\* C10 -- Identifier-length invariant: a Create whose identifier is shorter
\* than 3 or longer than 20 bytes fails with "Invalid auction id" and leaves
\* the storage as it was; every stored identifier is 3 to 20 bytes long, and
\* the storage holds one record per identifier.
C10_IdentifierLength ==
    /\ \A id \in StoredIds(storage) : Len(id) >= 3 /\ Len(id) <= 20
    /\ Cardinality(DOMAIN storage) = Cardinality(StoredIds(storage))
    /\ \A id \in {x \in ManyIds : Len(x) < 3 \/ Len(x) > 20},
          expires \in Expirations, contract \in Tokens,
          amount \in Amounts, sender \in Senders :
           LET r == HandleCreate(id, expires, contract, amount, sender)
           IN r.res.err = "Invalid auction id" /\ r.storage = storage

\* a 21-byte identifier was turned down with the 3-byte and the 20-byte one stored
C10_Witness ==
    /\ CreateResult("Invalid auction id")
    /\ Len(res.id) = MAX_ID_LEN + 1
    /\ Exists(storage, IdOfLen(MAX_ID_LEN))
    /\ Exists(storage, Zen)

\* C11 -- Details returns the stored record: a Details answer for an
\* identifier with a record carries that identifier and the winner, source,
\* expires and balance (token, amount) stored for it; for an identifier
\* without a record it is NotFound; and the Details step leaves the storage
\* as it was.
C11_DetailsAnswer ==
    res.op = "details" =>
        IF Exists(storage, res.id)
        THEN /\ res.err = "ok"
             /\ canonical_address(res.winner) = Auction(storage, res.id).winner
             /\ canonical_address(res.source) = Auction(storage, res.id).source
             /\ res.expires = Auction(storage, res.id).expires
             /\ canonical_address(res.balance.address)
                    = Auction(storage, res.id).balance.address
             /\ res.balance.amount = Auction(storage, res.id).balance.amount
        ELSE res.err = "NotFound"

C11_DetailsStep ==
    (res'.op = "details" /\ res' # res) => storage' = storage

C11_Details == []C11_DetailsAnswer /\ [][C11_DetailsStep]_vars

\* Details answered for an auction whose winner is no longer its source
C11_Witness ==
    /\ res.op = "details"
    /\ res.err = "ok"
    /\ res.winner # res.source
    /\ res.balance.amount > 0
    /\ res.balance.address = "tokenB"

\* C12 -- Create postcondition: a Create by an address, with an identifier
\* of 3 to 20 bytes, an expiration that has not elapsed at the current block
\* and no record under the identifier, succeeds; it stores winner = source =
\* the creator, the requested expiration and the coin received (a zero amount
\* included), and emits no transfer.
C12_CreatePostcondition ==
    \A id \in Ids, expires \in Expirations, contract \in Tokens,
       amount \in Amounts, sender \in ValidAddrs :
        ( /\ Len(id) >= 3
          /\ Len(id) <= 20
          /\ ~Expiration_is_expired(expires, block)
          /\ ~Exists(storage, id) )
        => LET r == HandleCreate(id, expires, contract, amount, sender)
               new == Auction(r.storage, id)
           IN /\ r.res.err = "ok"
              /\ r.res.messages = <<>>
              /\ Exists(r.storage, id)
              /\ human_address(new.winner) = sender
              /\ human_address(new.source) = sender
              /\ new.expires = expires
              /\ human_address(new.balance.address) = contract
              /\ new.balance.amount = amount

\* a Create went through and escrowed the largest amount
C12_Witness ==
    /\ CreateResult("ok")
    /\ Exists(storage, res.id)
    /\ Auction(storage, res.id).winner = Auction(storage, res.id).source
    /\ Auction(storage, res.id).balance.amount = MaxAmount

\* C13 -- No auction is born expired: a Create with a valid identifier whose
\* expiration has elapsed at the current block fails with "Expired auction"
\* and stores nothing; an auction a Create has just stored is unexpired at
\* that block, and a Bid at that block in its token, above its amount, from
\* an address, is accepted.
C13_NotBornExpired ==
    \A id \in Ids, expires \in Expirations, contract \in Tokens,
       amount \in Amounts, sender \in Senders :
        LET r == HandleCreate(id, expires, contract, amount, sender) IN
        /\ (is_valid_name(id) /\ Elapsed([expires |-> expires], block))
              => r.res.err = "Expired auction" /\ r.storage = storage
        /\ r.res.err = "ok"
              => /\ ~Elapsed(Auction(r.storage, id), block)
                 /\ \A higher \in (amount + 1)..MaxAmount, bidder \in ValidAddrs :
                       handle(r.storage, block, contract,
                              Cw20ReceiveMsg(bidder, higher, BidMsg(id))).res.err
                           = "ok"

\* in the last block a Create with an elapsed expiration failed on a free identifier
C13_Witness ==
    /\ CreateResult("Expired auction")
    /\ is_valid_name(res.id)
    /\ StoredIds(storage) = {}
    /\ block.height = MaxHeight

\* C14 -- Transfer count: an accepted Bid emits one transfer when the
\* balance stored before it is not zero and none when it is zero; a rejected
\* Bid, a Create, a Receive without payload, List and Details emit none.
C14_TransferCount ==
    /\ \A id \in Ids, contract \in Tokens, amount \in Amounts, sender \in Senders :
          LET r == HandleBid(id, contract, amount, sender) IN
          Len(r.res.messages)
              = IF r.res.err = "ok" /\ Auction(storage, id).balance.amount # 0
                THEN 1 ELSE 0
    /\ \A id \in Ids, expires \in Expirations, contract \in Tokens,
          amount \in Amounts, sender \in Senders :
          Len(HandleCreate(id, expires, contract, amount, sender).res.messages) = 0
    /\ \A contract \in Tokens, amount \in Amounts, sender \in Senders :
          Len(HandleNoData(contract, amount, sender).res.messages) = 0
    /\ \A id \in Ids : Len(query_details(storage, id).messages) = 0
    /\ \A id \in Ids :
          /\ Len(query_list(storage, None, None).messages) = 0
          /\ Len(query_list(storage, Some(id), Some(1)).messages) = 0

\* a bid was accepted over an empty balance and nothing was transferred
C14_Witness ==
    /\ BidResult("ok")
    /\ res.messages = <<>>
    /\ Auction(storage, res.id).balance.amount > 0

\* C15 -- Source and expiration are immutable: no step changes the source
\* or the expiration of a stored auction; a step that changes a stored record
\* is an accepted Bid on it, and an accepted Bid makes the bidder the winner.
C15_BidKeepsSource ==
    \A id \in Ids, contract \in Tokens, amount \in Amounts, sender \in Senders :
        LET r == HandleBid(id, contract, amount, sender) IN
        r.res.err = "ok" =>
            /\ Auction(r.storage, id).winner = canonical_address(sender)
            /\ Auction(r.storage, id).source = Auction(storage, id).source
            /\ Auction(r.storage, id).expires = Auction(storage, id).expires

C15_SourceStep ==
    \A id \in StoredIds(storage) :
        /\ Exists(storage', id)
        /\ Auction(storage', id).source = Auction(storage, id).source
        /\ Auction(storage', id).expires = Auction(storage, id).expires
        /\ Auction(storage', id) # Auction(storage, id)
              => res'.op = "bid" /\ res'.err = "ok" /\ res'.id = id

C15_SourceImmutable == []C15_BidKeepsSource /\ [][C15_SourceStep]_vars

\* a bid was accepted in the first block on an auction that expires by height
C15_Witness ==
    /\ BidResult("ok")
    /\ Auction(storage, res.id).winner # Auction(storage, res.id).source
    /\ Auction(storage, res.id).expires.kind = "AtHeight"
    /\ block.height = 0

RECURSIVE SumAmounts(_, _)
SumAmounts(st, ids) ==
    IF ids = {} THEN 0
    ELSE LET id == CHOOSE x \in ids : TRUE
         IN Auction(st, id).balance.amount + SumAmounts(st, ids \ {id})

\* what the storage holds in escrow in a token
Escrow(st, token) ==
    SumAmounts(st, {id \in StoredIds(st) :
                       Auction(st, id).balance.address = canonical_address(token)})

\* what a list of transfers pays out in a token
RECURSIVE Sent(_, _)
Sent(messages, token) ==
    IF messages = <<>> THEN 0
    ELSE (IF Head(messages).contract_addr = token THEN Head(messages).amount ELSE 0)
             + Sent(Tail(messages), token)

\* the handler's outcome r, on a deposit of amount in the token contract,
\* moves the escrow in every token by the deposit less the transfers
Conserves(r, contract, amount) ==
    \A token \in Tokens :
        Escrow(r.storage, token) - Escrow(storage, token)
            = (IF r.res.err = "ok" /\ contract = token THEN amount ELSE 0)
                  - Sent(r.res.messages, token)

\* C17 -- Escrow conservation: for every token, each Create and each Bid
\* changes the sum of the stored balances in that token by what it deposits
\* (its amount if it succeeds, nothing if it fails) less what its transfers
\* pay out, and no other step changes the storage; so deposits less
\* transfers equal the stored balances in every reachable state.
C17_HandlersConserve ==
    /\ \A id \in Ids, expires \in Expirations, contract \in Tokens,
          amount \in Amounts, sender \in Senders :
          Conserves(HandleCreate(id, expires, contract, amount, sender),
                    contract, amount)
    /\ \A id \in Ids, contract \in Tokens, amount \in Amounts, sender \in Senders :
          Conserves(HandleBid(id, contract, amount, sender), contract, amount)

C17_EscrowStep ==
    storage' # storage => res'.op \in {"create", "bid"} /\ res'.err = "ok"

Isolated(r, x) ==
    LET key == bucket_key(x) IN
    /\ DOMAIN r.storage \subseteq DOMAIN storage \cup {key}
    /\ \A k \in DOMAIN storage \ {key} :
          k \in DOMAIN r.storage /\ r.storage[k] = storage[k]
    /\ \A i \in 1..Len(r.res.messages) :
          /\ key \in DOMAIN storage
          /\ r.res.messages[i].recipient = human_address(storage[key].winner)
          /\ r.res.messages[i].contract_addr
                 = human_address(storage[key].balance.address)
          /\ r.res.messages[i].amount = storage[key].balance.amount

\* C18 -- Per-auction isolation: a Create or a Bid on identifier x, accepted
\* or not, leaves the record of every other identifier as it was, and a
\* transfer it emits pays the balance stored under x to the winner stored
\* under x.
C18_Isolation ==
    \A x \in ManyIds, contract \in Tokens, amount \in Amounts, sender \in Senders :
        /\ Isolated(HandleBid(x, contract, amount, sender), x)
        /\ \A expires \in {Never, AtHeight(MaxExpiry)} :
              Isolated(HandleCreate(x, expires, contract, amount, sender), x)

\* a bid was accepted while three other auctions were stored, one of them
\* with tokens in escrow
C18_Witness ==
    /\ BidResult("ok")
    /\ Cardinality(StoredIds(storage)) = 4
    /\ \E y \in StoredIds(storage) \ {res.id} :
          Auction(storage, y).balance.amount > 0

\* C19 -- Pagination completeness: with the storage unchanged, the pages
\* of a fixed limit n >= 1 (or the default), each asked for after the last
\* identifier of the page before until a page is empty, give every stored
\* identifier once, in ascending byte order.
C19_PaginationComplete ==
    (res.op = "pages" /\ (res.limit = None \/ res.limit.some >= 1)) =>
        /\ Len(res.auctions) = Cardinality(StoredIds(storage))
        /\ Range(res.auctions) = StoredIds(storage)
        /\ \A i \in 1..(Len(res.auctions) - 1) :
              BytesLess(res.auctions[i], res.auctions[i + 1])

\* pages of one identifier each went through identifiers that extend one
\* another by a zero byte
C19_Witness ==
    /\ res.op = "pages"
    /\ res.limit = Some(1)
    /\ Len(res.auctions) = 4
    /\ res.auctions[3] = Zen \o <<0>>

====
